---- MODULE Spec2Model ----
(***************************************************************************)
(* Refresh-token rotation and reuse detection of the Qyou API              *)
(* (apps/api/routes/auth.ts, apps/api/auth/tokens.ts, models/Session.ts).  *)
(*                                                                         *)
(* Every request handler is split at its awaits on the session collection: *)
(* each ledger read or write is one atomic step, and the synchronous code  *)
(* between two awaits belongs to the step that precedes it.  Requests are  *)
(* kept in the order in which they started.                                *)
(***************************************************************************)
EXTENDS Integers, Sequences, FiniteSets, TLC

VARIABLES
    now,        \* Date.now(), in milliseconds
    env,        \* process.env: JWT_ACCESS_SECRET, JWT_REFRESH_SECRET
    users,      \* the User collection: _id -> document, or NoUser
    ledger,     \* the Session collection: _id (position) -> document
    uuid,       \* number of crypto.randomUUID() values drawn so far
    reqs,       \* the requests, in the order of their start
    last,       \* history: the latest write to the Session collection
    prev        \* history: the write before it (operation and user only)

vars == <<now, env, users, ledger, uuid, reqs, last, prev>>

----------------------------------------------------------------------------
(* Bounds of the model                                                     *)

MaxReq == 3
MaxSeqReq == 4
MaxRaceReq == 4
MaxAdminReq == 3
MaxOpsReq == 3

NoId == 0
MaxTime == 2

UserIds == {1, 2}
Devices == {901}

\* what a client sends to /login: the email of a user, of nobody, or none; the password of
\* the user, another one, or none
Emails == UserIds \cup {NoId, Cardinality(UserIds) + 1}
Passwords == {"right", "wrong", ""}

----------------------------------------------------------------------------
(* Time.  One second has MsPerSec milliseconds; the token lifetimes are    *)
(* scaled down with it (7d -> REFRESH_TOKEN_TTL seconds).                  *)

MsPerSec == 2
ACCESS_TOKEN_TTL == 1
REFRESH_TOKEN_TTL == 1
MinSecretLength == 32

\* jsonwebtoken: Math.floor(Date.now() / 1000)
Sec(ms) == ms \div MsPerSec

----------------------------------------------------------------------------
(* Values                                                                  *)

NoUser == [role |-> "none"]
NoDate == 0 - 1
NoHash == <<>>
NoSecret == [key |-> "", len |-> 0]

NoToken ==
    [type |-> "", sub |-> NoId, role |-> "", deviceId |-> NoId, familyId |-> NoId,
     tokenId |-> NoId, iat |-> 0, exp |-> 0, sig |-> ""]

NoPair == [accessToken |-> NoToken, refreshToken |-> NoToken, refreshExpiresAt |-> NoDate]

NoSession == [id |-> 0, status |-> "", expiresAt |-> NoDate]

\* the AuthError / ValidationError / AppError messages thrown by the handlers
InvalidCredential == {"Invalid or expired refresh token", "Invalid token type"}
CredentialRejected ==
    {"Refresh token is invalid", "Refresh token reuse detected. All sessions revoked."}
CredentialExpired == {"Refresh token is expired"}
ConfigError == {"JWT_ACCESS_SECRET is not configured", "JWT_REFRESH_SECRET is not configured"}

----------------------------------------------------------------------------
(* auth/tokens.ts                                                          *)

\* readSecret: the secret, or the AppError it throws
SecretOk(name) == env[name].len >= MinSecretLength

\* hashToken: sha256 over the whole token string
hashToken(token) == <<"sha256", token>>

\* signToken(payload, secret, expiresIn) at time t
signToken(payload, secret, expiresIn, t) ==
    [payload EXCEPT !.iat = Sec(t), !.exp = Sec(t) + expiresIn, !.sig = secret.key]

\* mutant: an issueTokenPair that signs the default role
issueTokenPairDefaultRole(userId, role, deviceId, familyId, tokenId, t) ==
    [accessToken |->
        signToken([NoToken EXCEPT !.type = "access", !.sub = userId, !.role = "USER"],
                  env["JWT_ACCESS_SECRET"], ACCESS_TOKEN_TTL, t),
     refreshToken |->
        signToken([NoToken EXCEPT !.type = "refresh", !.sub = userId, !.deviceId = deviceId,
                                  !.familyId = familyId, !.tokenId = tokenId],
                  env["JWT_REFRESH_SECRET"], REFRESH_TOKEN_TTL, t),
     refreshExpiresAt |-> t + REFRESH_TOKEN_TTL * MsPerSec]

\* issueTokenPair, once both secrets have been read
issueTokenPair(userId, role, deviceId, familyId, tokenId, t) ==
    [accessToken |->
        signToken([NoToken EXCEPT !.type = "access", !.sub = userId, !.role = role],
                  env["JWT_ACCESS_SECRET"], ACCESS_TOKEN_TTL, t),
     refreshToken |->
        signToken([NoToken EXCEPT !.type = "refresh", !.sub = userId, !.deviceId = deviceId,
                                  !.familyId = familyId, !.tokenId = tokenId],
                  env["JWT_REFRESH_SECRET"], REFRESH_TOKEN_TTL, t),
     refreshExpiresAt |-> t + REFRESH_TOKEN_TTL * MsPerSec]

\* mutant: an issueTokenPair that validates the access secret alone
issueTokenPairErrorAccessOnly ==
    IF ~SecretOk("JWT_ACCESS_SECRET") THEN "JWT_ACCESS_SECRET is not configured" ELSE ""

\* the error issueTokenPair throws, "" when it throws none
issueTokenPairError ==
    IF ~SecretOk("JWT_ACCESS_SECRET") THEN "JWT_ACCESS_SECRET is not configured"
    ELSE IF ~SecretOk("JWT_REFRESH_SECRET") THEN "JWT_REFRESH_SECRET is not configured"
    ELSE ""

\* mutant: jwt.verify with ignoreExpiration
jwtVerifyIgnoreExpiration(token, secret, t) == token.sig = secret.key

\* jwt.verify(token, secret) at time t: signature, then the exp claim
jwtVerify(token, secret, t) ==
    /\ token.sig = secret.key
    /\ Sec(t) < token.exp

\* mutant: a verifyRefreshToken without the check of the type claim
verifyRefreshTokenAnyType(token, t) ==
    IF ~SecretOk("JWT_REFRESH_SECRET") THEN "Invalid or expired refresh token"
    ELSE IF ~jwtVerify(token, env["JWT_REFRESH_SECRET"], t) THEN "Invalid or expired refresh token"
    ELSE ""

\* verifyRefreshToken: the message of the AuthError thrown, "" when the payload is returned.
\* The AppError of readSecret is thrown inside the try and is no AuthError.
verifyRefreshToken(token, t) ==
    IF ~SecretOk("JWT_REFRESH_SECRET") THEN "Invalid or expired refresh token"
    ELSE IF ~jwtVerify(token, env["JWT_REFRESH_SECRET"], t) THEN "Invalid or expired refresh token"
    ELSE IF token.type # "refresh" THEN "Invalid token type"
    ELSE ""

----------------------------------------------------------------------------
(* models/Session.ts                                                       *)

\* a document as Session.create inserts it
NewSession(userId, deviceId, familyId, tokenId, hash, parent, expiresAt) ==
    [userId |-> userId, deviceId |-> deviceId, familyId |-> familyId, tokenId |-> tokenId,
     refreshTokenHash |-> hash, parentTokenHash |-> parent, replacedByHash |-> NoHash,
     status |-> "active", consumedAt |-> NoDate, revokedAt |-> NoDate,
     revokedReason |-> "", expiresAt |-> expiresAt]

Ids(L) == 1..Len(L)

\* the unique index on refreshTokenHash
DuplicateKey(L, hash) == \E i \in Ids(L) : L[i].refreshTokenHash = hash

\* mutant: Session.create on a collection without the unique index
SessionCreateNoIndex(L, doc) == Append(L, doc)

\* Session.create(doc): the insert is refused (E11000) when the hash is in the collection
SessionCreate(L, doc) ==
    IF DuplicateKey(L, doc.refreshTokenHash) THEN L ELSE Append(L, doc)

\* {$set: {status: 'revoked', revokedAt: new Date(), revokedReason: reason}} on a document
Revoked(doc, t, reason) ==
    [doc EXCEPT !.status = "revoked", !.revokedAt = t, !.revokedReason = reason]

----------------------------------------------------------------------------
(* Requests                                                                *)

NoReq ==
    [kind |-> "", pc |-> "done", sub |-> NoId, deviceId |-> NoId, familyId |-> NoId,
     tokenId |-> NoId, token |-> NoToken, cur |-> NoSession, pair |-> NoPair,
     reason |-> "", error |-> "", result |-> "", at |-> 0, snap |-> <<>>,
     answered |-> {}, stale |-> FALSE,
     env |-> [JWT_ACCESS_SECRET |-> NoSecret, JWT_REFRESH_SECRET |-> NoSecret],
     users |-> [u \in UserIds |-> NoUser]]

Reqs == 1..Len(reqs)

\* the request as it arrives: at is Date.now(), snap the Session collection, env the
\* process.env and users the User collection at that moment, and answered the requests that
\* have answered by then (history, read by no handler)
Arrived(kind) ==
    [NoReq EXCEPT !.kind = kind, !.at = now, !.snap = ledger,
                  !.answered = {j \in Reqs : reqs[j].pc = "done"},
                  !.env = env, !.users = users]

\* a write to the Session collection by request i, remembered with the collection before it
Wrote(i, op, userId) ==
    /\ last' = [req |-> i, op |-> op, user |-> userId, pre |-> ledger]
    /\ prev' = [op |-> last.op, user |-> last.user]

\* mutant: an id generator that repeats its values
UuidRepeated(k) == k

\* the next crypto.randomUUID()
Uuid(k) == uuid + k

\* refresh tokens a client holds: returned by a login or a refresh that succeeded
Returned == {reqs[i].pair.refreshToken : i \in {j \in Reqs : reqs[j].result = "ok"}}

\* a refresh token nobody was given: a fabricated payload signed with key
Fabricated(userId, key) ==
    [NoToken EXCEPT !.type = "refresh", !.sub = userId, !.deviceId = 901,
                    !.exp = Sec(MaxTime) + 1, !.sig = key]

\* what a client can send as refreshToken: nothing, a token it was given, a fabricated
\* payload under the server's key, or a token whose signature does not verify
Presentable ==
    {NoToken} \cup Returned
        \cup {Fabricated(u, env["JWT_REFRESH_SECRET"].key) : u \in UserIds}
        \cup {Fabricated(1, "forged")}

----------------------------------------------------------------------------
(* The clock                                                               *)

Tick ==
    /\ now < MaxTime
    /\ now' = now + 1
    /\ UNCHANGED <<env, users, ledger, uuid, reqs, last, prev>>

----------------------------------------------------------------------------
(* POST /login                                                             *)

\* lines 63-91: validation, user lookup, password check, ids and the token pair
LoginStart(email, password, providedDeviceId) ==
    /\ LET found == email \in UserIds /\ users[email] # NoUser
           passwordOk == password = "right"
           generated == providedDeviceId = NoId
           deviceId == IF generated THEN Uuid(1) ELSE providedDeviceId
           k == IF generated THEN 1 ELSE 0
           familyId == Uuid(k + 1)
           tokenId == Uuid(k + 2)
           r == Arrived("login")
           refused == [NoReq EXCEPT !.kind = "login"]
       IN  IF email = NoId \/ password = ""
           THEN /\ reqs' = Append(reqs, [refused EXCEPT !.result = "email and password are required"])
                /\ uuid' = uuid
           ELSE IF ~found \/ ~passwordOk
           THEN /\ reqs' = Append(reqs, [refused EXCEPT !.result = "Invalid email or password"])
                /\ uuid' = uuid
           ELSE IF issueTokenPairError # ""
           THEN /\ reqs' = Append(reqs, [r EXCEPT !.sub = email, !.deviceId = deviceId,
                                                  !.familyId = familyId, !.tokenId = tokenId,
                                                  !.result = issueTokenPairError])
                /\ uuid' = uuid + k + 2
           ELSE /\ reqs' = Append(reqs,
                      [r EXCEPT !.pc = "revokeDevice", !.sub = email, !.deviceId = deviceId,
                                !.familyId = familyId, !.tokenId = tokenId,
                                !.pair = issueTokenPair(email, users[email].role, deviceId,
                                                        familyId, tokenId, now)])
                /\ uuid' = uuid + k + 2
    /\ UNCHANGED <<now, env, users, ledger, last, prev>>

\* mutant: a filter that compares the deviceId of the document with the wrong value
IsActiveOnOtherDevice(userId, deviceId, doc) ==
    doc.userId = userId /\ doc.deviceId = userId /\ doc.status = "active"

\* mutant: the filter { userId, status: 'active' }, without the deviceId
IsActiveOfUser(userId, deviceId, doc) == doc.userId = userId /\ doc.status = "active"

\* the filter of the updateMany of lines 93-102
IsActiveOnDevice(userId, deviceId, doc) ==
    doc.userId = userId /\ doc.deviceId = deviceId /\ doc.status = "active"

\* lines 93-102
LoginRevokeDevice(i) ==
    /\ reqs[i].kind = "login" /\ reqs[i].pc = "revokeDevice"
    /\ ledger' = [id \in Ids(ledger) |->
                      IF IsActiveOnDevice(reqs[i].sub, reqs[i].deviceId, ledger[id])
                      THEN Revoked(ledger[id], now, "DEVICE_RELOGIN")
                      ELSE ledger[id]]
    /\ reqs' = [reqs EXCEPT ![i].pc = "create"]
    /\ Wrote(i, "revokeDevice", reqs[i].sub)
    /\ UNCHANGED <<now, env, users, uuid>>

\* lines 104-121
LoginCreate(i) ==
    /\ reqs[i].kind = "login" /\ reqs[i].pc = "create"
    /\ LET r == reqs[i]
           hash == hashToken(r.pair.refreshToken)
       IN  IF DuplicateKey(ledger, hash)
           THEN /\ reqs' = [reqs EXCEPT ![i].pc = "done", ![i].result = "Internal server error"]
                /\ UNCHANGED <<ledger, last, prev>>
           ELSE /\ ledger' = SessionCreate(ledger,
                                  NewSession(r.sub, r.deviceId, r.familyId, r.tokenId,
                                             hash, NoHash, r.pair.refreshExpiresAt))
                /\ reqs' = [reqs EXCEPT ![i].pc = "done", ![i].result = "ok"]
                /\ Wrote(i, "create", r.sub)
    /\ UNCHANGED <<now, env, users, uuid>>

----------------------------------------------------------------------------
(* POST /refresh                                                           *)

\* mutant: the filter { userId }, without the status
IsOfUser(userId, doc) == doc.userId = userId

\* mutant: the filter { userId, status: 'consumed' }
IsConsumed(userId, doc) == doc.userId = userId /\ doc.status = "consumed"

\* revokeAllUserSessions: the filter of its updateMany
IsNotRevoked(userId, doc) == doc.userId = userId /\ doc.status # "revoked"

\* mutant: a revokeAllUserSessions whose updateMany is never sent
revokeNoSessions(L, userId, reason, t) == L

\* revokeAllUserSessions(userId, reason) at time t
revokeAllUserSessions(L, userId, reason, t) ==
    [id \in Ids(L) |->
        IF IsNotRevoked(userId, L[id]) THEN Revoked(L[id], t, reason) ELSE L[id]]

\* lines 125-131: the body check, verifyRefreshToken and hashToken
RefreshStart(refreshToken) ==
    /\ LET r == [Arrived("refresh") EXCEPT !.token = refreshToken]
           error == verifyRefreshToken(refreshToken, now)
       IN  reqs' = Append(reqs,
               IF refreshToken = NoToken THEN [r EXCEPT !.result = "refreshToken is required"]
               ELSE IF error # "" THEN [r EXCEPT !.result = error]
               ELSE [r EXCEPT !.pc = "findOne", !.sub = refreshToken.sub,
                              !.deviceId = refreshToken.deviceId,
                              !.familyId = refreshToken.familyId])
    /\ UNCHANGED <<now, env, users, ledger, uuid, last, prev>>

\* mutant: a findOne that looks the session up by its owner alone
IsOwnedBy(payload, tokenHash, doc) == doc.userId = payload.sub

\* mutant: a findOne that compares the tokenId of the document with the familyId claim
IsPresentedByFamily(payload, tokenHash, doc) ==
    /\ doc.refreshTokenHash = tokenHash
    /\ doc.userId = payload.sub
    /\ doc.familyId = payload.familyId
    /\ doc.tokenId = payload.familyId

\* the filter of the findOne of lines 133-138
IsPresented(payload, tokenHash, doc) ==
    /\ doc.refreshTokenHash = tokenHash
    /\ doc.userId = payload.sub
    /\ doc.familyId = payload.familyId
    /\ doc.tokenId = payload.tokenId

\* lines 133-153: findOne, then the checks on the document it returned
RefreshFindOne(i) ==
    /\ reqs[i].kind = "refresh" /\ reqs[i].pc = "findOne"
    /\ LET r == reqs[i]
           found == {id \in Ids(ledger) : IsPresented(r.token, hashToken(r.token), ledger[id])}
       IN  IF found = {}
           THEN reqs' = [reqs EXCEPT ![i].pc = "revokeAll",
                                     ![i].reason = "REFRESH_TOKEN_REUSE_OR_UNKNOWN",
                                     ![i].error = "Refresh token is invalid"]
           ELSE LET id == CHOOSE x \in found : TRUE
                    currentSession == [id |-> id, status |-> ledger[id].status,
                                       expiresAt |-> ledger[id].expiresAt]
                IN  IF currentSession.status # "active"
                    THEN reqs' = [reqs EXCEPT ![i].pc = "revokeAll", ![i].cur = currentSession,
                                      ![i].reason = "REFRESH_TOKEN_REUSE_DETECTED",
                                      ![i].error = "Refresh token reuse detected. All sessions revoked."]
                    ELSE IF currentSession.expiresAt <= now
                    THEN reqs' = [reqs EXCEPT ![i].pc = "saveExpired", ![i].cur = currentSession]
                    ELSE reqs' = [reqs EXCEPT ![i].pc = "findUser", ![i].cur = currentSession]
    /\ UNCHANGED <<now, env, users, ledger, uuid, last, prev>>

\* lines 141-142, 146-147, 160-161: revokeAllUserSessions, then the AuthError
RefreshRevokeAll(i) ==
    /\ reqs[i].kind = "refresh" /\ reqs[i].pc = "revokeAll"
    /\ ledger' = revokeAllUserSessions(ledger, reqs[i].sub, reqs[i].reason, now)
    /\ reqs' = [reqs EXCEPT ![i].pc = "done", ![i].result = reqs[i].error]
    /\ Wrote(i, "revokeAll", reqs[i].sub)
    /\ UNCHANGED <<now, env, users, uuid>>

\* mutant: the expiry branch revokes through revokeAllUserSessions
RefreshSaveExpiredAll(i) ==
    /\ reqs[i].kind = "refresh" /\ reqs[i].pc = "saveExpired"
    /\ ledger' = revokeAllUserSessions(ledger, reqs[i].sub, "REFRESH_TOKEN_EXPIRED", now)
    /\ reqs' = [reqs EXCEPT ![i].pc = "done", ![i].result = "Refresh token is expired"]
    /\ Wrote(i, "saveExpired", reqs[i].sub)
    /\ UNCHANGED <<now, env, users, uuid>>

\* lines 151-155: currentSession.save() writes the modified paths of the document by _id
RefreshSaveExpired(i) ==
    /\ reqs[i].kind = "refresh" /\ reqs[i].pc = "saveExpired"
    /\ ledger' = [ledger EXCEPT ![reqs[i].cur.id].status = "revoked",
                                ![reqs[i].cur.id].revokedAt = now,
                                ![reqs[i].cur.id].revokedReason = "REFRESH_TOKEN_EXPIRED"]
    /\ reqs' = [reqs EXCEPT ![i].pc = "done", ![i].result = "Refresh token is expired"]
    /\ Wrote(i, "saveExpired", reqs[i].sub)
    /\ UNCHANGED <<now, env, users, uuid>>

\* lines 158-176: User.findById, then the next token id and token pair
RefreshFindUser(i) ==
    /\ reqs[i].kind = "refresh" /\ reqs[i].pc = "findUser"
    /\ LET r == reqs[i]
           nextTokenId == Uuid(1)
       IN  IF users[r.sub] = NoUser
           THEN /\ reqs' = [reqs EXCEPT ![i].pc = "revokeAll", ![i].reason = "USER_NOT_FOUND",
                                        ![i].error = "User account not found"]
                /\ uuid' = uuid
           ELSE IF issueTokenPairError # ""
           THEN /\ reqs' = [reqs EXCEPT ![i].pc = "done", ![i].tokenId = nextTokenId,
                                        ![i].result = issueTokenPairError]
                /\ uuid' = uuid + 1
           ELSE /\ reqs' = [reqs EXCEPT ![i].pc = "save", ![i].tokenId = nextTokenId,
                                        ![i].pair = issueTokenPair(r.sub, users[r.sub].role,
                                                        r.deviceId, r.familyId, nextTokenId, now)]
                /\ uuid' = uuid + 1
    /\ UNCHANGED <<now, env, users, ledger, last, prev>>

\* lines 174-177: currentSession.save() writes the modified paths of the document by _id.
\* stale (history, read by no handler): the document was no longer active at this write
RefreshSave(i) ==
    /\ reqs[i].kind = "refresh" /\ reqs[i].pc = "save"
    /\ ledger' = [ledger EXCEPT ![reqs[i].cur.id].status = "consumed",
                                ![reqs[i].cur.id].consumedAt = now,
                                ![reqs[i].cur.id].replacedByHash =
                                    hashToken(reqs[i].pair.refreshToken)]
    /\ reqs' = [reqs EXCEPT ![i].pc = "create",
                             ![i].stale = ledger[reqs[i].cur.id].status # "active"]
    /\ Wrote(i, "save", reqs[i].sub)
    /\ UNCHANGED <<now, env, users, uuid>>

\* mutant: a Session.create whose deviceId and tokenId are exchanged
RefreshCreateSwapped(i) ==
    /\ reqs[i].kind = "refresh" /\ reqs[i].pc = "create"
    /\ LET r == reqs[i]
           nextHash == hashToken(r.pair.refreshToken)
       IN  IF DuplicateKey(ledger, nextHash)
           THEN /\ reqs' = [reqs EXCEPT ![i].pc = "done", ![i].result = "Internal server error"]
                /\ UNCHANGED <<ledger, last, prev>>
           ELSE /\ ledger' = SessionCreate(ledger,
                                  NewSession(r.sub, r.tokenId, r.familyId, r.deviceId,
                                             nextHash, hashToken(r.token),
                                             r.pair.refreshExpiresAt))
                /\ reqs' = [reqs EXCEPT ![i].pc = "done", ![i].result = "ok"]
                /\ Wrote(i, "create", r.sub)
    /\ UNCHANGED <<now, env, users, uuid>>

\* lines 179-197
RefreshCreate(i) ==
    /\ reqs[i].kind = "refresh" /\ reqs[i].pc = "create"
    /\ LET r == reqs[i]
           nextHash == hashToken(r.pair.refreshToken)
       IN  IF DuplicateKey(ledger, nextHash)
           THEN /\ reqs' = [reqs EXCEPT ![i].pc = "done", ![i].result = "Internal server error"]
                /\ UNCHANGED <<ledger, last, prev>>
           ELSE /\ ledger' = SessionCreate(ledger,
                                  NewSession(r.sub, r.deviceId, r.familyId, r.tokenId,
                                             nextHash, hashToken(r.token),
                                             r.pair.refreshExpiresAt))
                /\ reqs' = [reqs EXCEPT ![i].pc = "done", ![i].result = "ok"]
                /\ Wrote(i, "create", r.sub)
    /\ UNCHANGED <<now, env, users, uuid>>

----------------------------------------------------------------------------
(* middleware/adminAuth.ts                                                 *)

\* access tokens a client holds: returned by a login or a refresh that succeeded
ReturnedAccess == {reqs[i].pair.accessToken : i \in {j \in Reqs : reqs[j].result = "ok"}}

\* what a client can send as bearer token: no header, an access or refresh token it was
\* given, or an ADMIN payload whose signature does not verify
Bearers ==
    {NoToken} \cup ReturnedAccess \cup Returned
        \cup {[NoToken EXCEPT !.type = "access", !.sub = 2, !.role = "ADMIN",
                              !.exp = Sec(MaxTime) + 1, !.sig = "forged"]}

\* mutant: a middleware that also asks the Session collection for an active session
requireAdminWithSession(token, t) ==
    IF token = NoToken THEN "Missing bearer token"
    ELSE IF ~SecretOk("JWT_ACCESS_SECRET") THEN "JWT_ACCESS_SECRET is not configured"
    ELSE IF ~jwtVerify(token, env["JWT_ACCESS_SECRET"], t) THEN "Invalid or expired access token"
    ELSE IF \A id \in Ids(ledger) :
                ledger[id].userId = token.sub => ledger[id].status # "active"
         THEN "Invalid or expired access token"
    ELSE IF token.type # "access" \/ token.role # "ADMIN" THEN "Admin access required"
    ELSE "next"

\* requireAdmin at time t: the message of the error passed to next, "next" for next()
requireAdmin(token, t) ==
    IF token = NoToken THEN "Missing bearer token"
    ELSE IF ~SecretOk("JWT_ACCESS_SECRET") THEN "JWT_ACCESS_SECRET is not configured"
    ELSE IF ~jwtVerify(token, env["JWT_ACCESS_SECRET"], t) THEN "Invalid or expired access token"
    ELSE IF token.type # "access" \/ token.role # "ADMIN" THEN "Admin access required"
    ELSE "next"

\* a request to a route behind requireAdmin: the middleware has no await
RequireAdmin(token) ==
    /\ reqs' = Append(reqs, [Arrived("admin") EXCEPT !.token = token, !.sub = token.sub,
                                                      !.result = requireAdmin(token, now)])
    /\ UNCHANGED <<now, env, users, ledger, uuid, last, prev>>

----------------------------------------------------------------------------
(* Specifications                                                          *)

Secret(key, len) == [key |-> key, len |-> len]

\* the configurations of the two secrets
EnvConfigs ==
    {[JWT_ACCESS_SECRET |-> a, JWT_REFRESH_SECRET |-> r] :
        a \in {Secret("k1", MinSecretLength), NoSecret},
        r \in {Secret("k2", MinSecretLength), Secret("k2", MinSecretLength - 1)}}

\* models/User.ts: role is 'USER' (the default) or 'ADMIN'
Roles == [u \in UserIds |-> IF u = 1 THEN "USER" ELSE "ADMIN"]

Init ==
    /\ now = 0
    /\ env \in EnvConfigs
    /\ users = [u \in UserIds |-> [role |-> Roles[u]]]
    /\ ledger = <<>>
    /\ uuid = 0
    /\ reqs = <<>>
    /\ last = [req |-> 0, op |-> "", user |-> NoId, pre |-> <<>>]
    /\ prev = [op |-> "", user |-> NoId]

\* the requests the model lets arrive
Open(max) == Len(reqs) < max

\* requests interleave at every await
Next ==
    \/ Tick
    \/ \E email \in Emails, password \in Passwords, deviceId \in Devices \cup {NoId} :
          Open(MaxReq) /\ LoginStart(email, password, deviceId)
    \/ \E i \in Reqs : LoginRevokeDevice(i)
    \/ \E i \in Reqs : LoginCreate(i)
    \/ \E refreshToken \in Presentable : Open(MaxReq) /\ RefreshStart(refreshToken)
    \/ \E i \in Reqs : RefreshFindOne(i)
    \/ \E i \in Reqs : RefreshRevokeAll(i)
    \/ \E i \in Reqs : RefreshSaveExpired(i)
    \/ \E i \in Reqs : RefreshFindUser(i)
    \/ \E i \in Reqs : RefreshSave(i)
    \/ \E i \in Reqs : RefreshCreate(i)

Spec == Init /\ [][Next]_vars

\* one request at a time: a request starts when every earlier one has answered.  The
\* clients of this specification send a complete body: a /login or /refresh refused for a
\* missing field or a wrong password touches nothing and is left to Next.
Idle == \A i \in Reqs : reqs[i].pc = "done"

SeqLoginStart(email, password, deviceId) ==
    Idle /\ Open(MaxSeqReq) /\ LoginStart(email, password, deviceId)

SeqRefreshStart(refreshToken) == Idle /\ Open(MaxSeqReq) /\ RefreshStart(refreshToken)

SeqNext ==
    \/ Tick
    \/ \E email \in UserIds, password \in {"right"}, deviceId \in Devices \cup {NoId} :
          SeqLoginStart(email, password, deviceId)
    \/ \E i \in Reqs : LoginRevokeDevice(i)
    \/ \E i \in Reqs : LoginCreate(i)
    \/ \E refreshToken \in Presentable \ {NoToken} : SeqRefreshStart(refreshToken)
    \/ \E i \in Reqs : RefreshFindOne(i)
    \/ \E i \in Reqs : RefreshRevokeAll(i)
    \/ \E i \in Reqs : RefreshSaveExpired(i)
    \/ \E i \in Reqs : RefreshFindUser(i)
    \/ \E i \in Reqs : RefreshSave(i)
    \/ \E i \in Reqs : RefreshCreate(i)

SeqSpec == Init /\ [][SeqNext]_vars

\* the requests of one user on one device, interleaved at every await: the client sends
\* its password and the tokens it was given
RaceNext ==
    \/ Tick
    \/ Open(MaxRaceReq) /\ LoginStart(1, "right", 901)
    \/ \E i \in Reqs : LoginRevokeDevice(i)
    \/ \E i \in Reqs : LoginCreate(i)
    \/ \E refreshToken \in Returned : Open(MaxRaceReq) /\ RefreshStart(refreshToken)
    \/ \E i \in Reqs : RefreshFindOne(i)
    \/ \E i \in Reqs : RefreshRevokeAll(i)
    \/ \E i \in Reqs : RefreshSaveExpired(i)
    \/ \E i \in Reqs : RefreshFindUser(i)
    \/ \E i \in Reqs : RefreshSave(i)
    \/ \E i \in Reqs : RefreshCreate(i)

RaceSpec == Init /\ [][RaceNext]_vars

\* one request at a time, to /auth or to a route behind requireAdmin
AdminNext ==
    \/ Tick
    \/ \E email \in UserIds, deviceId \in Devices \cup {NoId} :
          Idle /\ Open(MaxAdminReq) /\ LoginStart(email, "right", deviceId)
    \/ \E i \in Reqs : LoginRevokeDevice(i)
    \/ \E i \in Reqs : LoginCreate(i)
    \/ \E refreshToken \in Presentable \ {NoToken} :
          Idle /\ Open(MaxAdminReq) /\ RefreshStart(refreshToken)
    \/ \E i \in Reqs : RefreshFindOne(i)
    \/ \E i \in Reqs : RefreshRevokeAll(i)
    \/ \E i \in Reqs : RefreshSaveExpired(i)
    \/ \E i \in Reqs : RefreshFindUser(i)
    \/ \E i \in Reqs : RefreshSave(i)
    \/ \E i \in Reqs : RefreshCreate(i)
    \/ \E token \in Bearers : Idle /\ Open(MaxAdminReq) /\ RequireAdmin(token)

AdminSpec == Init /\ [][AdminNext]_vars

\* the environment in which both secrets are configured
GoodEnv ==
    [JWT_ACCESS_SECRET |-> Secret("k1", MinSecretLength),
     JWT_REFRESH_SECRET |-> Secret("k2", MinSecretLength)]

\* the process restarted with another environment; the collections persist
Reconfigure(config) ==
    /\ config # env
    /\ env' = config
    /\ UNCHANGED <<now, users, ledger, uuid, reqs, last, prev>>

\* the role of a user changed in the User collection
SetRole(userId, role) ==
    /\ users[userId] # NoUser /\ users[userId].role # role
    /\ users' = [users EXCEPT ![userId].role = role]
    /\ UNCHANGED <<now, env, ledger, uuid, reqs, last, prev>>

\* a user removed from the User collection
RemoveUser(userId) ==
    /\ users[userId] # NoUser
    /\ users' = [users EXCEPT ![userId] = NoUser]
    /\ UNCHANGED <<now, env, ledger, uuid, reqs, last, prev>>

\* the environments of a restart: those of EnvConfigs, a short access secret, no refresh
\* secret, and one secret used for both tokens
OpsConfigs ==
    EnvConfigs
        \cup {[JWT_ACCESS_SECRET |-> Secret("k1", MinSecretLength - 1),
               JWT_REFRESH_SECRET |-> Secret("k2", MinSecretLength)],
              [JWT_ACCESS_SECRET |-> Secret("k1", MinSecretLength),
               JWT_REFRESH_SECRET |-> NoSecret],
              [JWT_ACCESS_SECRET |-> Secret("k2", MinSecretLength),
               JWT_REFRESH_SECRET |-> Secret("k2", MinSecretLength)]}

\* one request of user 1 at a time; between two requests the process may restart once,
\* leaving the environment with both secrets for another one, and the user may be made
\* ADMIN or be removed.  The client sends to /refresh any token it was given, access
\* tokens included.
OpsNext ==
    \/ Tick
    \/ Idle /\ Open(MaxOpsReq) /\ LoginStart(1, "right", 901)
    \/ \E i \in Reqs : LoginRevokeDevice(i)
    \/ \E i \in Reqs : LoginCreate(i)
    \/ \E refreshToken \in Returned \cup ReturnedAccess :
          Idle /\ Open(MaxOpsReq) /\ RefreshStart(refreshToken)
    \/ \E i \in Reqs : RefreshFindOne(i)
    \/ \E i \in Reqs : RefreshRevokeAll(i)
    \/ \E i \in Reqs : RefreshSaveExpired(i)
    \/ \E i \in Reqs : RefreshFindUser(i)
    \/ \E i \in Reqs : RefreshSave(i)
    \/ \E i \in Reqs : RefreshCreate(i)
    \/ \E config \in OpsConfigs : Idle /\ env = GoodEnv /\ Reconfigure(config)
    \/ Idle /\ SetRole(1, "ADMIN")
    \/ Idle /\ RemoveUser(1)

OpsSpec == Init /\ [][OpsNext]_vars

----------------------------------------------------------------------------
(* Properties                                                              *)

\* the links of a user that are active in collection L
ActiveOf(L, userId) == {id \in Ids(L) : L[id].userId = userId /\ L[id].status = "active"}

\* the documents of L that hold the hash of a token
RowsOf(L, token) == {id \in Ids(L) : L[id].refreshTokenHash = hashToken(token)}

\* request b presents to /refresh the credential that request a, answered before b arrived,
\* presented and rotated with success
Replayed(a, b) ==
    /\ a < b
    /\ reqs[a].kind = "refresh" /\ reqs[b].kind = "refresh"
    /\ reqs[a].token = reqs[b].token
    /\ reqs[a].result = "ok"
    /\ reqs[b].pc = "done"

\* the exp claim of the presented token had not passed when request i arrived
Unexpired(i) == Sec(reqs[i].at) < reqs[i].token.exp

\* C1 as stated: with one request at a time, a second presentation of a credential whose
\* first presentation succeeded fails with CredentialRejected, and once it has answered no
\* link of the user is active.
C1_ReplayRejected ==
    \A a, b \in Reqs :
        Replayed(a, b) =>
            /\ reqs[b].result \in CredentialRejected
            /\ b = Len(reqs) => ActiveOf(ledger, reqs[b].token.sub) = {}

\* C1 amended: the same, for a second presentation made before the exp claim of the
\* credential has passed.
C1_ReplayRejectedUnexpired ==
    \A a, b \in Reqs :
        Replayed(a, b) /\ Unexpired(b) =>
            /\ reqs[b].result \in CredentialRejected
            /\ b = Len(reqs) => ActiveOf(ledger, reqs[b].token.sub) = {}

\* C1 witness: the replay has just been rejected, and its mass revocation found active
\* links of the user in two families, the successor of the replayed credential among them
C1_Witness ==
    \E a, b \in Reqs :
        /\ Replayed(a, b) /\ Unexpired(b) /\ b = Len(reqs)
        /\ last.req = b
        /\ \E x, y \in ActiveOf(last.pre, reqs[b].token.sub) :
              /\ last.pre[x].familyId # last.pre[y].familyId
              /\ last.pre[x].refreshTokenHash = hashToken(reqs[a].pair.refreshToken)

\* C4: with one request at a time, once a login of user u on device d has succeeded the
\* only active link of (u, d) is the head it created, and every link of (u, d) that was
\* active when the login arrived is revoked with reason DEVICE_RELOGIN.
C4_LoginLeavesOneActive ==
    \A i \in Reqs :
        (i = Len(reqs) /\ reqs[i].kind = "login" /\ reqs[i].result = "ok") =>
            LET r == reqs[i]
                head == Len(ledger)
                OnDevice(doc) == doc.userId = r.sub /\ doc.deviceId = r.deviceId
            IN  /\ head = Len(r.snap) + 1
                /\ {id \in Ids(ledger) : OnDevice(ledger[id]) /\ ledger[id].status = "active"}
                       = {head}
                /\ ledger[head].refreshTokenHash = hashToken(r.pair.refreshToken)
                /\ ledger[head].parentTokenHash = NoHash
                /\ \A id \in Ids(r.snap) :
                      (OnDevice(r.snap[id]) /\ r.snap[id].status = "active") =>
                          /\ ledger[id].status = "revoked"
                          /\ ledger[id].revokedReason = "DEVICE_RELOGIN"

\* C4 witness: a login has succeeded on a device that held an active link when it arrived
C4_Witness ==
    \E i \in Reqs :
        /\ i = Len(reqs) /\ reqs[i].kind = "login" /\ reqs[i].result = "ok"
        /\ \E id \in Ids(reqs[i].snap) :
              /\ reqs[i].snap[id].userId = reqs[i].sub
              /\ reqs[i].snap[id].deviceId = reqs[i].deviceId
              /\ reqs[i].snap[id].status = "active"

\* request i presented a credential whose link, when the request arrived, was in status st
Presented(i, st) ==
    /\ reqs[i].kind = "refresh"
    /\ \E id \in RowsOf(reqs[i].snap, reqs[i].token) : reqs[i].snap[id].status = st

\* C2 as stated: of two /refresh requests that both read the same link as active and
\* unexpired, exactly one returns a token pair and the other fails with CredentialRejected.
C2_ExactlyOneRotates ==
    \A a, b \in Reqs :
        ( /\ a < b
          /\ Presented(a, "active") /\ Presented(b, "active")
          /\ reqs[a].token = reqs[b].token
          /\ reqs[a].cur.status = "active" /\ reqs[b].cur.status = "active"
          /\ reqs[a].pair # NoPair /\ reqs[b].pair # NoPair
          /\ reqs[a].pc = "done" /\ reqs[b].pc = "done" ) =>
            \/ reqs[a].result = "ok" /\ reqs[b].result \in CredentialRejected
            \/ reqs[b].result = "ok" /\ reqs[a].result \in CredentialRejected

\* the active links of a family
ActiveInFamily(familyId) ==
    {id \in Ids(ledger) : ledger[id].familyId = familyId /\ ledger[id].status = "active"}

\* C3 as stated: at most one link of a family is active.
C3_OneActivePerFamily ==
    \A id \in Ids(ledger) : Cardinality(ActiveInFamily(ledger[id].familyId)) <= 1

\* C5 as stated: when a /refresh has inserted the successor and answered, the presented
\* link is consumed and points to the successor, and the successor is active and points back.
C5_ChainLinked ==
    (last.op = "create" /\ reqs[last.req].kind = "refresh") =>
        LET r == reqs[last.req]
            old == ledger[r.cur.id]
            new == ledger[Len(ledger)]
        IN  /\ r.result = "ok"
            /\ old.status = "consumed"
            /\ old.replacedByHash = new.refreshTokenHash
            /\ new.refreshTokenHash = hashToken(r.pair.refreshToken)
            /\ new.status = "active"
            /\ new.parentTokenHash = old.refreshTokenHash

\* C6: a /refresh with a token that verifies and whose hash is in no document fails with
\* CredentialRejected, writes nothing but the mass revocation (no document becomes consumed,
\* none is inserted), and leaves no link of the claimed subject active.
C6_UnknownRejected ==
    \A i \in Reqs :
        ( /\ reqs[i].kind = "refresh" /\ reqs[i].token # NoToken
          /\ reqs[i].token.type = "refresh"
          /\ reqs[i].token.sig = env["JWT_REFRESH_SECRET"].key
          /\ SecretOk("JWT_REFRESH_SECRET")
          /\ Unexpired(i)
          /\ RowsOf(ledger, reqs[i].token) = {} ) =>
            /\ reqs[i].pc \in {"findOne", "revokeAll", "done"}
            /\ reqs[i].pc = "done" => reqs[i].result \in CredentialRejected
            /\ last.req = i =>
                  /\ reqs[i].pc = "done" /\ last.op = "revokeAll"
                  /\ Len(ledger) = Len(last.pre)
                  /\ \A id \in Ids(ledger) :
                        ledger[id].status = "consumed" => ledger[id] = last.pre[id]
                  /\ ActiveOf(ledger, reqs[i].token.sub) = {}

\* C6 witness: a fabricated credential has been rejected and its subject had an active link
C6_Witness ==
    \E i \in Reqs :
        /\ reqs[i].kind = "refresh" /\ reqs[i].token.tokenId = NoId
        /\ reqs[i].result \in CredentialRejected
        /\ last.req = i
        /\ ActiveOf(last.pre, reqs[i].token.sub) # {}

\* request i presented a credential that login or refresh issued, whose link was active and
\* past its expiresAt when the request arrived
PresentedExpired(i) ==
    /\ reqs[i].kind = "refresh"
    /\ \E id \in RowsOf(reqs[i].snap, reqs[i].token) :
          reqs[i].snap[id].status = "active" /\ reqs[i].snap[id].expiresAt <= reqs[i].at

\* C7 as stated: with one request at a time, a /refresh with an issued credential whose link
\* is active and past expiresAt fails with CredentialExpired and leaves that link revoked
\* with reason REFRESH_TOKEN_EXPIRED.
C7_ExpiredRevoked ==
    \A i \in Reqs :
        (i = Len(reqs) /\ PresentedExpired(i) /\ reqs[i].pc = "done") =>
            /\ reqs[i].result \in CredentialExpired
            /\ \A id \in RowsOf(ledger, reqs[i].token) :
                  /\ ledger[id].status = "revoked"
                  /\ ledger[id].revokedReason = "REFRESH_TOKEN_EXPIRED"

\* C8: the write of the expiry branch changes the presented link and no other document.
C8_ExpiryFrame ==
    last.op = "saveExpired" =>
        /\ reqs[last.req].result \in CredentialExpired
        /\ Len(ledger) = Len(last.pre)
        /\ \A id \in Ids(ledger) :
              IF id \in RowsOf(ledger, reqs[last.req].token)
              THEN ledger[id].status = "revoked"
              ELSE ledger[id] = last.pre[id]

\* C8 witness: the expiry branch has written while the same user held an active link on
\* another device and another user held an active link
C8_Witness ==
    /\ last.op = "saveExpired"
    /\ \E x, y \in Ids(ledger) :
          /\ ledger[x].userId = last.user /\ ledger[x].status = "active"
          /\ ledger[x].deviceId # reqs[last.req].deviceId
          /\ ledger[y].userId # last.user /\ ledger[y].status = "active"

\* C9: a second revokeAllUserSessions for the same user, directly after a first one, leaves
\* the collection as the first one left it.
C9_RevokeAllIdempotent ==
    (last.op = "revokeAll" /\ prev.op = "revokeAll" /\ last.user = prev.user) =>
        ledger = last.pre

\* C9 witness: the second of two calls in a row ran at a later time or with another reason
\* than the first, which had revoked a link of the user
C9_Witness ==
    /\ last.op = "revokeAll" /\ prev.op = "revokeAll" /\ last.user = prev.user
    /\ \E id \in Ids(ledger) :
          /\ ledger[id].userId = last.user
          /\ ledger[id].revokedReason = "REFRESH_TOKEN_REUSE_OR_UNKNOWN"
          /\ \/ ledger[id].revokedAt < now
             \/ reqs[last.req].reason # "REFRESH_TOKEN_REUSE_OR_UNKNOWN"

\* the token request i presented fails jwt.verify or is no refresh token
FailsVerification(i) ==
    /\ reqs[i].kind = "refresh" /\ reqs[i].token # NoToken
    /\ \/ reqs[i].token.sig # env["JWT_REFRESH_SECRET"].key
       \/ ~Unexpired(i)
       \/ reqs[i].token.type # "refresh"

\* C10: a /refresh whose token fails verification fails with InvalidCredential at once and
\* never writes to the Session collection.
C10_InvalidNoWrite ==
    \A i \in Reqs :
        FailsVerification(i) =>
            /\ reqs[i].pc = "done"
            /\ reqs[i].result \in InvalidCredential
            /\ last.req # i

\* C10 witness: an issued credential presented after its exp claim was refused while its
\* link was active
C10_Witness ==
    \E i \in Reqs :
        /\ FailsVerification(i) /\ reqs[i].result \in InvalidCredential
        /\ \E id \in RowsOf(ledger, reqs[i].token) : ledger[id].status = "active"

\* C11 as stated: a write to the Session collection changes the status of a link only when
\* that link was active before the write; consumed and revoked are final.
C11_StatusMonotonic ==
    \A id \in Ids(last.pre) :
        ledger[id].status # last.pre[id].status => last.pre[id].status = "active"

\* C12 as stated: at most one link of a (userId, deviceId) pair is active.
C12_OneActivePerDevice ==
    \A a, b \in Ids(ledger) :
        ( /\ ledger[a].userId = ledger[b].userId
          /\ ledger[a].deviceId = ledger[b].deviceId
          /\ ledger[a].status = "active" /\ ledger[b].status = "active" ) => a = b

\* the links of a family
Family(familyId) == {id \in Ids(ledger) : ledger[id].familyId = familyId}

\* C13 as stated: the links of a family form a simple chain: one head without parentTokenHash,
\* no two links with the same parentTokenHash, and for every link with a replacedByHash
\* exactly one link of the family whose parentTokenHash is the hash of that link.
C13_SimpleChain ==
    \A x \in Ids(ledger) :
        LET F == Family(ledger[x].familyId)
        IN  /\ Cardinality({a \in F : ledger[a].parentTokenHash = NoHash}) = 1
            /\ \A a, b \in F :
                  ledger[a].parentTokenHash = ledger[b].parentTokenHash => a = b
            /\ \A a \in F :
                  ledger[a].replacedByHash # NoHash =>
                      Cardinality({b \in F : ledger[b].parentTokenHash
                                                 = ledger[a].refreshTokenHash}) = 1

\* C14 as stated: no link is inserted into a family of which a link has been revoked
\* (revokedAt is set by every revocation and cleared by none).
C14_NoResurrection ==
    last.op = "create" =>
        \A id \in Ids(last.pre) :
            last.pre[id].familyId = ledger[Len(ledger)].familyId =>
                last.pre[id].revokedAt = NoDate

\* C15 as stated: a /refresh that read the presented link as active and found it no longer
\* active when it wrote consumed answers CredentialRejected, has inserted no successor, and
\* its last write is the mass revocation.
C15_StaleRejected ==
    \A i \in Reqs :
        (reqs[i].kind = "refresh" /\ reqs[i].stale /\ reqs[i].pc = "done") =>
            /\ reqs[i].result \in CredentialRejected
            /\ RowsOf(ledger, reqs[i].pair.refreshToken) = {}
            /\ last.req = i => last.op = "revokeAll"

\* request c presents, after /refresh b of the same user was rejected, a credential that was
\* issued to that user before b answered, and every login of the user had answered when b
\* arrived
AfterRejection(b, c) ==
    /\ reqs[b].kind = "refresh" /\ reqs[b].result \in CredentialRejected
    /\ reqs[c].kind = "refresh" /\ reqs[c].pc = "done"
    /\ b \in reqs[c].answered
    /\ reqs[c].token.sub = reqs[b].sub
    /\ \E a \in Reqs :
          /\ reqs[a].pair.refreshToken = reqs[c].token
          /\ a < b \/ b \notin reqs[a].answered
    /\ \A l \in Reqs :
          (reqs[l].kind = "login" /\ reqs[l].sub = reqs[b].sub) => l \in reqs[b].answered

\* C16 as stated: once a /refresh of a user has answered CredentialRejected, a later /refresh
\* with a credential issued to the user before or during the rejected request fails, as long
\* as the user has not logged in again.
C16_RejectedStaysOut ==
    \A b, c \in Reqs : AfterRejection(b, c) => reqs[c].result # "ok"

\* C17 as stated: the successor of every consumed link is in the collection.
C17_SuccessorExists ==
    \A id \in Ids(ledger) :
        (ledger[id].status = "consumed" /\ ledger[id].replacedByHash # NoHash) =>
            DuplicateKey(ledger, ledger[id].replacedByHash)

\* request i presented to requireAdmin an access token with the signature of the access
\* secret, before its exp claim
ValidAccess(i) ==
    /\ reqs[i].kind = "admin"
    /\ reqs[i].token.type = "access"
    /\ SecretOk("JWT_ACCESS_SECRET")
    /\ reqs[i].token.sig = env["JWT_ACCESS_SECRET"].key
    /\ Sec(reqs[i].at) < reqs[i].token.exp

\* C18 as stated: a correctly signed, unexpired access token is accepted, whatever the
\* Session collection holds.
C18_ValidAccepted ==
    \A i \in Reqs : ValidAccess(i) => reqs[i].result = "next"

\* C18 amended: the answer of requireAdmin is fixed by the token, the access secret and the
\* clock, whatever the Session collection holds: a correctly signed, unexpired access token
\* is accepted when its role is ADMIN and refused with 'Admin access required' otherwise, and
\* every other bearer token is refused.
C18_ValidAcceptedByRole ==
    \A i \in Reqs :
        reqs[i].kind = "admin" =>
            IF ValidAccess(i)
            THEN reqs[i].result =
                     IF reqs[i].token.role = "ADMIN" THEN "next" ELSE "Admin access required"
            ELSE reqs[i].result # "next"

\* C18 witness: an ADMIN access token has been accepted when every session of its subject,
\* the one it was issued with among them, was revoked
C18_Witness ==
    \E i \in Reqs :
        /\ ValidAccess(i) /\ reqs[i].result = "next"
        /\ \E id \in Ids(reqs[i].snap) : reqs[i].snap[id].userId = reqs[i].sub
        /\ \A id \in Ids(reqs[i].snap) :
              reqs[i].snap[id].userId = reqs[i].sub => reqs[i].snap[id].status = "revoked"

\* C19: the updateMany of a login changes no document but active links of the user on the
\* device of the login and inserts none; the Session.create of a login changes no document
\* and inserts one head, active, of that user and device.
C19_LoginFrame ==
    LET r == reqs[last.req]
    IN  /\ last.op = "revokeDevice" =>
              /\ Len(ledger) = Len(last.pre)
              /\ \A id \in Ids(ledger) :
                    ledger[id] # last.pre[id] =>
                        /\ last.pre[id].userId = r.sub
                        /\ last.pre[id].deviceId = r.deviceId
                        /\ last.pre[id].status = "active"
        /\ (last.op = "create" /\ r.kind = "login") =>
              /\ Len(ledger) = Len(last.pre) + 1
              /\ \A id \in Ids(last.pre) : ledger[id] = last.pre[id]
              /\ ledger[Len(ledger)] =
                     NewSession(r.sub, r.deviceId, r.familyId, r.tokenId,
                                hashToken(r.pair.refreshToken), NoHash,
                                r.pair.refreshExpiresAt)

\* C19 witness: the updateMany of a login has revoked a link while the same user held an
\* active link on another device
C19_Witness ==
    /\ last.op = "revokeDevice"
    /\ ledger # last.pre
    /\ \E id \in Ids(ledger) :
          /\ ledger[id].userId = last.user
          /\ ledger[id].deviceId # reqs[last.req].deviceId
          /\ ledger[id].status = "active"

\* C20: no two documents hold the same refreshTokenHash, and a Session.create with a hash
\* that a document holds, for whatever user, leaves the collection as it is.
C20_UniqueHash ==
    /\ \A a, b \in Ids(ledger) :
          ledger[a].refreshTokenHash = ledger[b].refreshTokenHash => a = b
    /\ \A id \in Ids(ledger), u \in UserIds :
          SessionCreate(ledger, NewSession(u, 901, Uuid(1), Uuid(2),
                                           ledger[id].refreshTokenHash, NoHash, now))
              = ledger

\* C20 witness: the collection holds a consumed link and the successor that a /refresh
\* inserted for it
C20_Witness ==
    \E a, b \in Ids(ledger) :
        /\ a # b
        /\ ledger[a].status = "consumed"
        /\ ledger[a].replacedByHash = ledger[b].refreshTokenHash

\* the secret of that name was absent or too short in the environment e
BadSecret(e, name) == e[name].len < MinSecretLength

\* request i is a /login with the right password that arrived while a signing secret was
\* absent or too short
LoginWithoutSecret(i) ==
    /\ reqs[i].kind = "login" /\ reqs[i].sub # NoId
    /\ \/ BadSecret(reqs[i].env, "JWT_ACCESS_SECRET")
       \/ BadSecret(reqs[i].env, "JWT_REFRESH_SECRET")

\* C21: a login that arrives while the access or the refresh secret is absent or shorter
\* than 32 characters fails at once with ConfigError and writes nothing: while it is the
\* latest request the Session collection is as it was when the login arrived.
C21_LoginConfigError ==
    \A i \in Reqs :
        LoginWithoutSecret(i) =>
            /\ reqs[i].pc = "done"
            /\ reqs[i].result \in ConfigError
            /\ last.req # i
            /\ i = Len(reqs) => ledger = reqs[i].snap

\* C21 witness: a login was refused with ConfigError while its user held an active link on
\* the device of the login
C21_Witness ==
    \E i \in Reqs :
        /\ LoginWithoutSecret(i) /\ reqs[i].result \in ConfigError
        /\ \E id \in Ids(ledger) :
              /\ ledger[id].userId = reqs[i].sub
              /\ ledger[id].deviceId = reqs[i].deviceId
              /\ ledger[id].status = "active"

\* C22 as stated: a /refresh that arrives while the refresh secret is absent or shorter than
\* 32 characters fails with ConfigError and writes nothing.
C22_RefreshConfigError ==
    \A i \in Reqs :
        ( /\ reqs[i].kind = "refresh" /\ reqs[i].token # NoToken
          /\ BadSecret(reqs[i].env, "JWT_REFRESH_SECRET") ) =>
            /\ reqs[i].pc = "done"
            /\ reqs[i].result \in ConfigError
            /\ last.req # i

\* C23: the link a /refresh inserts has the userId, familyId and deviceId of the link it
\* supersedes and a tokenId that no document held before the insert; along every chain
\* (parentTokenHash to refreshTokenHash) userId, familyId and deviceId are the same.
C23_SuccessorInherits ==
    /\ (last.op = "create" /\ reqs[last.req].kind = "refresh") =>
          LET old == last.pre[reqs[last.req].cur.id]
              new == ledger[Len(ledger)]
          IN  /\ new.userId = old.userId
              /\ new.familyId = old.familyId
              /\ new.deviceId = old.deviceId
              /\ new.parentTokenHash = old.refreshTokenHash
              /\ \A id \in Ids(last.pre) : last.pre[id].tokenId # new.tokenId
    /\ \A a, b \in Ids(ledger) :
          ledger[b].parentTokenHash = ledger[a].refreshTokenHash =>
              /\ ledger[b].userId = ledger[a].userId
              /\ ledger[b].familyId = ledger[a].familyId
              /\ ledger[b].deviceId = ledger[a].deviceId

\* C23 witness: a /refresh has inserted the third link of a chain
C23_Witness ==
    /\ last.op = "create" /\ reqs[last.req].kind = "refresh"
    /\ \E a, b \in Ids(last.pre) :
          /\ last.pre[b].parentTokenHash = last.pre[a].refreshTokenHash
          /\ ledger[Len(ledger)].parentTokenHash = last.pre[b].refreshTokenHash

\* C24: the Session.create of a login inserts one link, active, without parentTokenHash
\* and replacedByHash, in a family that no document carried before the insert or when the
\* login arrived, and the login then answers with success; every login that succeeded has
\* exactly one head in its family.
C24_LoginInsertsHead ==
    /\ (last.op = "create" /\ reqs[last.req].kind = "login") =>
          LET r == reqs[last.req]
              new == ledger[Len(ledger)]
          IN  /\ r.result = "ok"
              /\ Len(ledger) = Len(last.pre) + 1
              /\ new.status = "active"
              /\ new.parentTokenHash = NoHash /\ new.replacedByHash = NoHash
              /\ new.familyId = r.familyId
              /\ \A id \in Ids(last.pre) : last.pre[id].familyId # new.familyId
              /\ \A id \in Ids(r.snap) : r.snap[id].familyId # new.familyId
    /\ \A i \in Reqs :
          (reqs[i].kind = "login" /\ reqs[i].result = "ok") =>
              Cardinality({id \in Ids(ledger) :
                              /\ ledger[id].familyId = reqs[i].familyId
                              /\ ledger[id].parentTokenHash = NoHash}) = 1

\* C24 witness: a login has inserted its head while the same user had links on the same
\* device
C24_Witness ==
    /\ last.op = "create" /\ reqs[last.req].kind = "login"
    /\ \E id \in Ids(last.pre) :
          /\ last.pre[id].userId = reqs[last.req].sub
          /\ last.pre[id].deviceId = reqs[last.req].deviceId

\* request c presents to /refresh the credential that request a returned, and between the
\* answer of a and the arrival of c the user did not log in on the device of the credential,
\* no /refresh revoked the sessions of the user, and nobody presented the credential
FirstUse(a, c) ==
    /\ a < c
    /\ reqs[a].result = "ok" /\ reqs[a].kind \in {"login", "refresh"}
    /\ reqs[c].kind = "refresh" /\ reqs[c].pc = "done"
    /\ reqs[c].token = reqs[a].pair.refreshToken
    /\ reqs[c].users[reqs[c].token.sub] # NoUser
    /\ \A b \in (a + 1)..(c - 1) :
          /\ ~(reqs[b].kind = "login" /\ reqs[b].sub = reqs[c].sub
                  /\ reqs[b].deviceId = reqs[c].token.deviceId)
          /\ ~(reqs[b].kind = "refresh" /\ reqs[b].token.sub = reqs[c].token.sub
                  /\ reqs[b].reason # "")
          /\ ~(reqs[b].kind = "refresh" /\ reqs[b].token = reqs[c].token)

\* the expiresAt of the link of the credential that request c presented
ExpiresAt(c) ==
    LET id == CHOOSE x \in RowsOf(reqs[c].snap, reqs[c].token) : TRUE
    IN  reqs[c].snap[id].expiresAt

\* C25 as stated: with one request at a time, the first presentation of a returned credential
\* that arrives before its expiry succeeds.
C25_FirstUseSucceeds ==
    \A a, c \in Reqs :
        (FirstUse(a, c) /\ Unexpired(c) /\ reqs[c].at < ExpiresAt(c)) =>
            reqs[c].result = "ok"

\* C25 amended: with one request at a time, the first presentation of a returned credential
\* that arrives before its expiry succeeds, as long as the expiresAt of its link has not
\* passed.
C25_FirstUseSucceedsInTime ==
    \A a, c \in Reqs :
        (FirstUse(a, c) /\ Unexpired(c) /\ now < ExpiresAt(c)) =>
            reqs[c].result = "ok"

\* C25 witness: a client that presents the latest credential it was given has rotated a
\* second time
C25_Witness ==
    \E a, c \in Reqs :
        /\ FirstUse(a, c) /\ Unexpired(c) /\ now < ExpiresAt(c)
        /\ reqs[a].kind = "refresh"
        /\ reqs[c].result = "ok"

\* C26 as stated: the save of a /refresh changes the presented link, from active to consumed
\* with consumedAt and replacedByHash set, and no other document; its Session.create inserts
\* one document and changes none.
C26_RotateFrame ==
    LET r == reqs[last.req]
    IN  /\ last.op = "save" =>
              /\ Len(ledger) = Len(last.pre)
              /\ \A id \in Ids(ledger) : id # r.cur.id => ledger[id] = last.pre[id]
              /\ last.pre[r.cur.id].status = "active"
              /\ ledger[r.cur.id].consumedAt # NoDate
              /\ ledger[r.cur.id] =
                     [last.pre[r.cur.id] EXCEPT
                          !.status = "consumed",
                          !.consumedAt = ledger[r.cur.id].consumedAt,
                          !.replacedByHash = hashToken(r.pair.refreshToken)]
        /\ (last.op = "create" /\ r.kind = "refresh") =>
              /\ Len(ledger) = Len(last.pre) + 1
              /\ \A id \in Ids(last.pre) : ledger[id] = last.pre[id]

\* request i presented to /refresh a credential that verifies and whose link was active when
\* the request arrived and has not passed its expiresAt, while the User collection held no
\* document of its subject
PresentedWithoutUser(i) ==
    /\ reqs[i].kind = "refresh" /\ reqs[i].token.type = "refresh"
    /\ ~BadSecret(reqs[i].env, "JWT_REFRESH_SECRET")
    /\ reqs[i].token.sig = reqs[i].env["JWT_REFRESH_SECRET"].key
    /\ Unexpired(i)
    /\ Presented(i, "active")
    /\ now < ExpiresAt(i)
    /\ reqs[i].users[reqs[i].token.sub] = NoUser

\* C27: with one request at a time, a /refresh with a valid, active, unexpired credential
\* whose subject is gone from the User collection fails with the AuthError 'User account not
\* found', inserts no successor, leaves the presented link revoked and not consumed, and
\* leaves no link of the subject active.
C27_UserGone ==
    \A i \in Reqs :
        (PresentedWithoutUser(i) /\ reqs[i].pc = "done") =>
            /\ reqs[i].result = "User account not found"
            /\ reqs[i].pair = NoPair
            /\ \A id \in Ids(ledger) : ledger[id].parentTokenHash # hashToken(reqs[i].token)
            /\ \A id \in RowsOf(ledger, reqs[i].token) :
                  ledger[id].status = "revoked" /\ ledger[id].consumedAt = NoDate
            /\ i = Len(reqs) => ActiveOf(ledger, reqs[i].token.sub) = {}

\* C27 witness: such a /refresh has answered
C27_Witness ==
    \E i \in Reqs :
        /\ PresentedWithoutUser(i) /\ reqs[i].pc = "done"
        /\ last.req = i /\ ActiveOf(last.pre, reqs[i].token.sub) # {}

\* C28: a /refresh with a token of type access fails at once with InvalidCredential and
\* never writes to the Session collection, whatever the secrets are.
C28_AccessTokenRefused ==
    \A i \in Reqs :
        (reqs[i].kind = "refresh" /\ reqs[i].token.type = "access") =>
            /\ reqs[i].pc = "done"
            /\ reqs[i].result \in InvalidCredential
            /\ last.req # i

\* C28 witness: an unexpired access token signed with the secret that is also the refresh
\* secret was refused for its type while its subject held an active link
C28_Witness ==
    \E i \in Reqs :
        /\ reqs[i].kind = "refresh" /\ reqs[i].token.type = "access"
        /\ ~BadSecret(reqs[i].env, "JWT_REFRESH_SECRET")
        /\ reqs[i].token.sig = reqs[i].env["JWT_REFRESH_SECRET"].key
        /\ Unexpired(i)
        /\ reqs[i].result = "Invalid token type"
        /\ ActiveOf(ledger, reqs[i].token.sub) # {}

\* C29: with one request at a time, the access token of a /refresh that succeeded carries
\* the role that the User collection held for its subject when the request was handled.
C29_RoleAtRotate ==
    \A i \in Reqs :
        (reqs[i].kind = "refresh" /\ reqs[i].result = "ok") =>
            /\ reqs[i].pair.accessToken.sub = reqs[i].token.sub
            /\ reqs[i].pair.accessToken.role = reqs[i].users[reqs[i].token.sub].role

\* C29 witness: a /refresh has returned an access token with another role than the one of
\* the login of its chain
C29_Witness ==
    \E a, i \in Reqs :
        /\ reqs[a].kind = "login" /\ reqs[a].result = "ok"
        /\ reqs[i].kind = "refresh" /\ reqs[i].result = "ok"
        /\ reqs[i].familyId = reqs[a].familyId
        /\ reqs[i].pair.accessToken.role # reqs[a].pair.accessToken.role

\* C30 as stated: a write to the Session collection leaves the revokedAt and revokedReason
\* of every link that has been revoked as they are.
C30_RevokedOnce ==
    \A id \in Ids(last.pre) :
        last.pre[id].revokedAt # NoDate =>
            /\ ledger[id].revokedAt = last.pre[id].revokedAt
            /\ ledger[id].revokedReason = last.pre[id].revokedReason

====
